---- MODULE Spec2Model ----
(***************************************************************************)
(* check_updates.py: a requirements.txt is read line by line into Package  *)
(* records that are put on the work queue `args`; five worker tasks take   *)
(* records off it, ask the registry for the last version and put the       *)
(* enriched record on `results`; bound() joins the work queue, cancels the *)
(* workers and drains `results`; main() sorts, groups and prints.          *)
(*                                                                         *)
(* Text is a sequence of one-character strings.  An Optional[str] is a     *)
(* sequence of length at most one: <<>> is None, <<v>> is the string v.    *)
(***************************************************************************)
EXTENDS Naturals, Sequences, FiniteSets, Bags

VARIABLES
    exists,      \* requirements_path.exists()
    manifest,    \* the lines of requirements.txt, as the file iterator yields them
    pos,         \* number of lines get_packages has consumed
    mainpc,      \* position of the main flow (bound(), then main())
    args,        \* asyncio.Queue of records waiting for a worker
    unfinished,  \* args._unfinished_tasks: put() adds one, task_done() takes one
    results,     \* asyncio.Queue of enriched records, in arrival order
    wpc,         \* position of each worker task
    wpkg,        \* each worker's local `package` (Optional)
    requests,    \* the registry's log: the bag of the names it was asked for
    takers,      \* the workers that have taken a record off the work queue
    enqueued,    \* the records put on the work queue, in the order of the puts
    packages,    \* main()'s list `packages`
    groups,      \* the groups of groupby() not yet printed
    stdout,      \* what was printed on the report stream
    stderr,      \* what was printed on the diagnostic stream
    error,       \* the exception that ended the main flow (Optional)
    arrived      \* the list bound() returned, as it was before main() sorted it

vars == <<exists, manifest, pos, mainpc, args, unfinished, results, wpc, wpkg,
          requests, takers, enqueued, packages, groups, stdout, stderr, error,
          arrived>>

----------------------------------------------------------------------------
(* Bounds of the model and constants of the program *)

MaxLines == 2

ManyLines == 6

NumWorkers == 5

\* range(6): one worker too many
OneWorkerMore == 1..(NumWorkers + 1)

Workers == 1..NumWorkers

None == <<>>

Some(v) == <<v>>

----------------------------------------------------------------------------
(* Text *)

Str1(a) == <<a>>

NL == "\n"

\* the character class [<>= ] of the pattern
SepChars == {"<", ">", "=", " "}

\* sample lines of a requirements.txt
LineA1 == <<"a", "=", "=", "1", NL>>

LineB2 == <<"b", ">", "=", "2", NL>>

LineBlank == <<NL>>

LineBare == <<"a", NL>>

WellFormedLines == {LineA1, LineB2}

SampleLines == WellFormedLines \cup {LineBlank, LineBare}

\* versions the registry may publish
RegistryVersions == {Str1("1"), Str1("2")}

----------------------------------------------------------------------------
(* pattern.search(requirement): r'([^<>= ]+)[<>= ]{2,4}(.+)' *)

AllIn(s, i, j, S) == \A n \in i..j : s[n] \in S

NoneIn(s, i, j, S) == \A n \in i..j : s[n] \notin S

\* the end of the longest run of characters other than newline that starts at i
DotPlusEnd(s, i) ==
    CHOOSE e \in (i - 1)..Len(s) :
        /\ NoneIn(s, i, e, {NL})
        /\ (e = Len(s) \/ s[e + 1] = NL)

\* <<i, j, k>>: the name is s[i..j], k separator characters follow it, and at
\* least one character other than newline follows them
Candidates(s) ==
    {c \in (1..Len(s)) \X (1..Len(s)) \X (2..4) :
        /\ c[1] <= c[2]
        /\ NoneIn(s, c[1], c[2], SepChars)
        /\ c[2] + c[3] < Len(s) + 1
        /\ AllIn(s, c[2] + 1, c[2] + c[3], SepChars)
        /\ c[2] + c[3] + 1 <= Len(s)
        /\ s[c[2] + c[3] + 1] # NL}

\* leftmost start, then the greedy name, then the greedy separator run
Better(c, d) ==
    \/ c[1] < d[1]
    \/ c[1] = d[1] /\ c[2] > d[2]
    \/ c[1] = d[1] /\ c[2] = d[2] /\ c[3] >= d[3]

Matches(s) == Candidates(s) # {}

TheMatch(s) ==
    LET cs == Candidates(s)
    IN CHOOSE c \in cs : \A d \in cs : Better(c, d)

\* .groups() of the match: <<name, version>>
Groups(s) ==
    LET m == TheMatch(s)
        from == m[2] + m[3] + 1
    IN <<SubSeq(s, m[1], m[2]), SubSeq(s, from, DotPlusEnd(s, from))>>

----------------------------------------------------------------------------
(* Package *)

Package(name, required_version, last_version) ==
    [name |-> name, required_version |-> required_version,
     last_version |-> last_version]

\* get_packages: the record of one line
ParsedPackage(line) ==
    LET g == Groups(line) IN Package(g[1], g[2], None)

\* an exception: its class and its args (each a text)
Exception(type, eargs) == [type |-> type, args |-> eargs]

\* None.groups() for a line without a match: the one arg is the interpreter's
\* message (kept whole, as a text of one element), whatever the line is
NoMatchError(line) ==
    Exception("AttributeError",
              <<Str1("'NoneType' object has no attribute 'groups'")>>)

----------------------------------------------------------------------------
(* get_last_version: the outcomes of one lookup *)

\* session.get raised (no connection, timeout before the response headers)
GetRaised == [kind |-> "get_raised", version |-> None]

\* a response whose status is not 200
NotOk == [kind |-> "not_200", version |-> None]

\* status 200 and a body with info.version = v
Ok(v) == [kind |-> "ok", version |-> Some(v)]

\* status 200, and resp.json() or json['info']['version'] raised (a body that
\* is no JSON, a missing key, a timeout or a reset while the body is read)
BodyRaised == [kind |-> "body_raised", version |-> None]

\* a response whose status is not 200 and whose body has info.version = v
NotOkWithBody(v) == [kind |-> "not_200", version |-> Some(v)]

Outcomes ==
    {GetRaised, NotOk, BodyRaised}
    \cup {Ok(v) : v \in RegistryVersions}
    \cup {NotOkWithBody(v) : v \in RegistryVersions}

\* the try block covers session.get only
LookupRaises(o) == o.kind = "body_raised"

\* the status test left out: any body's info.version is returned
LastVersionOfAnyStatus(o) == o.version

LastVersion(o) == IF o.kind = "ok" THEN o.version ELSE None

LookupDiagnostics(o) == IF o.kind = "get_raised" THEN <<"lookup error">> ELSE <<>>

----------------------------------------------------------------------------
(* main(): sort by key, groupby by key *)

\* an absent last version taken for "nothing newer"
KeyAbsentIsCurrent(item) ==
    /\ item.last_version # None
    /\ item.last_version # Some(item.required_version)

Key(item) == item.last_version # Some(item.required_version)

\* groupby() on the list as it arrived, the sort left out
NotSorted(ps) == ps

\* sort(key=key, reverse=True): True sorts before False
SortByKeyReversed(ps) ==
    SelectSeq(ps, LAMBDA p : Key(p)) \o SelectSeq(ps, LAMBDA p : ~Key(p))

\* list.sort(key=key) is stable and False sorts before True
SortByKey(ps) ==
    SelectSeq(ps, LAMBDA p : ~Key(p)) \o SelectSeq(ps, LAMBDA p : Key(p))

\* the length of the run of equal keys at the head of ps
RECURSIVE RunLength(_)
RunLength(ps) ==
    IF Len(ps) <= 1 THEN Len(ps)
    ELSE IF Key(ps[2]) = Key(ps[1]) THEN 1 + RunLength(Tail(ps))
    ELSE 1

\* groupby(packages, key=key): the runs of equal keys, each with its key
RECURSIVE GroupBy(_)
GroupBy(ps) ==
    IF ps = <<>> THEN <<>>
    ELSE LET n == RunLength(ps)
         IN <<[has_update |-> Key(ps[1]), items |-> SubSeq(ps, 1, n)]>>
            \o GroupBy(SubSeq(ps, n + 1, Len(ps)))

Header(has_update) ==
    IF has_update THEN "Packages with updates: " ELSE "Packages without updates: "

\* enumerate(packages_) without its start: the numbers begin at 0
PrintedGroupFromZero(g) ==
    <<[kind |-> "header", text |-> Header(g.has_update), num |-> 0,
       package |-> None]>>
    \o [n \in 1..Len(g.items) |->
          [kind |-> "entry", text |-> "", num |-> n - 1,
           package |-> Some(g.items[n])]]
    \o <<[kind |-> "blank", text |-> "", num |-> 0, package |-> None]>>

\* what the loop body prints for one group
PrintedGroup(g) ==
    <<[kind |-> "header", text |-> Header(g.has_update), num |-> 0,
       package |-> None]>>
    \o [n \in 1..Len(g.items) |->
          [kind |-> "entry", text |-> "", num |-> n, package |-> Some(g.items[n])]]
    \o <<[kind |-> "blank", text |-> "", num |-> 0, package |-> None]>>

----------------------------------------------------------------------------
(* Initial states *)

RECURSIVE SeqsUpTo(_, _)
SeqsUpTo(S, n) ==
    IF n = 0 THEN {<<>>}
    ELSE LET shorter == SeqsUpTo(S, n - 1)
         IN shorter \cup {Append(s, x) : s \in {t \in shorter : Len(t) = n - 1}, x \in S}

InitWith(present, lines) ==
    /\ exists = present
    /\ manifest = lines
    /\ pos = 0
    /\ mainpc = "read"
    /\ args = <<>>
    /\ unfinished = 0
    /\ results = <<>>
    /\ wpc = [w \in Workers |-> "none"]
    /\ wpkg = [w \in Workers |-> None]
    /\ requests = EmptyBag
    /\ takers = {}
    /\ enqueued = <<>>
    /\ packages = <<>>
    /\ groups = <<>>
    /\ stdout = <<>>
    /\ stderr = <<>>
    /\ error = None
    /\ arrived = <<>>

Init ==
    \/ \E lines \in SeqsUpTo(SampleLines, MaxLines) : InitWith(TRUE, lines)
    \/ InitWith(FALSE, <<>>)

----------------------------------------------------------------------------
(* bound(): reading the manifest *)

\* no exists() test: aiofiles.open raises FileNotFoundError
ReadMissingRaises ==
    /\ mainpc = "read"
    /\ ~exists
    /\ stderr' = Append(stderr, "FileNotFoundError")
    /\ error' = Some(Exception("FileNotFoundError", <<>>))
    /\ mainpc' = "raised"
    /\ UNCHANGED <<exists, manifest, pos, args, unfinished, results, wpc,
                   wpkg, requests, takers, enqueued, packages, groups, stdout,
                   arrived>>

\* get_packages, the file is missing: one diagnostic, no record
ReadMissing ==
    /\ mainpc = "read"
    /\ ~exists
    /\ stderr' = Append(stderr, "Requirements file not found")
    /\ mainpc' = "create_tasks"
    /\ UNCHANGED <<exists, manifest, pos, args, unfinished, results, wpc,
                   wpkg, requests, takers, enqueued, packages, groups, stdout,
                   error, arrived>>

\* one turn of `async for package in get_packages(...)`: args.put(package)
ReadLine ==
    /\ mainpc = "read"
    /\ exists
    /\ pos < Len(manifest)
    /\ pos' = pos + 1
    /\ IF Matches(manifest[pos + 1])
       THEN /\ args' = Append(args, ParsedPackage(manifest[pos + 1]))
            /\ unfinished' = unfinished + 1
            /\ enqueued' = Append(enqueued, ParsedPackage(manifest[pos + 1]))
            /\ UNCHANGED <<mainpc, stderr, error>>
       ELSE \* pattern.search() is None: .groups() raises AttributeError
            /\ mainpc' = "raised"
            /\ stderr' = Append(stderr, "AttributeError")
            /\ error' = Some(NoMatchError(manifest[pos + 1]))
            /\ UNCHANGED <<args, unfinished, enqueued>>
    /\ UNCHANGED <<exists, manifest, results, wpc, wpkg, requests, takers,
                   packages, groups, stdout, arrived>>

ReadEnd ==
    /\ mainpc = "read"
    /\ exists
    /\ pos = Len(manifest)
    /\ mainpc' = "create_tasks"
    /\ UNCHANGED <<exists, manifest, pos, args, unfinished, results, wpc,
                   wpkg, requests, takers, enqueued, packages, groups, stdout,
                   stderr, error, arrived>>

----------------------------------------------------------------------------
(* bound(): the pool *)

\* the tasks created before the manifest is read
CreateTasksBeforeReading ==
    /\ \/ /\ mainpc = "read"
          /\ \A w \in Workers : wpc[w] = "none"
          /\ UNCHANGED mainpc
       \/ /\ mainpc = "create_tasks"
          /\ mainpc' = "join"
    /\ wpc' = [w \in Workers |-> IF wpc[w] = "none" THEN "get" ELSE wpc[w]]
    /\ UNCHANGED <<exists, manifest, pos, args, unfinished, results, wpkg,
                   requests, takers, enqueued, packages, groups, stdout,
                   stderr, error, arrived>>

CreateTasks ==
    /\ mainpc = "create_tasks"
    /\ wpc' = [w \in Workers |-> "get"]
    /\ mainpc' = "join"
    /\ UNCHANGED <<exists, manifest, pos, args, unfinished, results, wpkg,
                   requests, takers, enqueued, packages, groups, stdout,
                   stderr, error, arrived>>

\* a join that waits for the work queue to be empty, not for task_done()
JoinReadyWhenEmpty == args = <<>>

\* args.join() called without await: nothing is waited for
JoinNotAwaited == TRUE

\* args.join() returns when every record put was marked done
JoinReady == unfinished = 0

Join ==
    /\ mainpc = "join"
    /\ JoinReady
    /\ mainpc' = "cancel"
    /\ UNCHANGED <<exists, manifest, pos, args, unfinished, results, wpc,
                   wpkg, requests, takers, enqueued, packages, groups, stdout,
                   stderr, error, arrived>>

\* the loop over the tasks left out
AfterCancelForgotten(pc) == pc

\* task.cancel(): a task that is not done ends at the await it is suspended in
AfterCancel(pc) == IF pc \in {"get", "lookup", "task_done"} THEN "cancelled" ELSE pc

Cancel ==
    /\ mainpc = "cancel"
    /\ wpc' = [w \in Workers |-> AfterCancel(wpc[w])]
    /\ mainpc' = "return"
    /\ UNCHANGED <<exists, manifest, pos, args, unfinished, results, wpkg,
                   requests, takers, enqueued, packages, groups, stdout,
                   stderr, error, arrived>>

\* range(results.qsize() - 1)
DrainedButOne(q) == SubSeq(q, 1, Len(q) - 1)

\* [results.get_nowait() for _ in range(results.qsize())]
Drained(q) == q

Return ==
    /\ mainpc = "return"
    /\ packages' = Drained(results)
    /\ arrived' = Drained(results)
    /\ results' = <<>>
    /\ mainpc' = "sort"
    /\ UNCHANGED <<exists, manifest, pos, args, unfinished, wpc, wpkg,
                   requests, takers, enqueued, groups, stdout, stderr, error>>

----------------------------------------------------------------------------
(* worker() *)

\* package = await args.get()
\* the work item marked done as soon as it is taken
WorkerGetMarksDone(w) ==
    /\ wpc[w] = "get"
    /\ args # <<>>
    /\ wpkg' = [wpkg EXCEPT ![w] = Some(Head(args))]
    /\ args' = Tail(args)
    /\ unfinished' = unfinished - 1
    /\ wpc' = [wpc EXCEPT ![w] = "lookup"]
    /\ takers' = takers \cup {w}
    /\ UNCHANGED <<exists, manifest, pos, mainpc, results, requests,
                   enqueued, packages, groups, stdout, stderr, error,
                   arrived>>

WorkerGet(w) ==
    /\ wpc[w] = "get"
    /\ args # <<>>
    /\ wpkg' = [wpkg EXCEPT ![w] = Some(Head(args))]
    /\ args' = Tail(args)
    /\ wpc' = [wpc EXCEPT ![w] = "lookup"]
    /\ takers' = takers \cup {w}
    /\ UNCHANGED <<exists, manifest, pos, mainpc, unfinished, results,
                   requests, enqueued, packages, groups, stdout, stderr,
                   error, arrived>>

Enriched(package, o) ==
    Package(package.name, package.required_version, LastVersion(o))

\* last_version = await get_last_version(...); results.put(Package(...))
WorkerLookup(w, o) ==
    /\ wpc[w] = "lookup"
    /\ requests' = requests (+) SetToBag({wpkg[w][1].name})
    /\ stderr' = stderr \o LookupDiagnostics(o)
    /\ IF LookupRaises(o)
       THEN \* the exception ends the worker task; nobody awaits the task
            /\ wpc' = [wpc EXCEPT ![w] = "raised"]
            /\ UNCHANGED results
       ELSE /\ results' = Append(results, Enriched(wpkg[w][1], o))
            /\ wpc' = [wpc EXCEPT ![w] = "task_done"]
    /\ UNCHANGED <<exists, manifest, pos, mainpc, args, unfinished, wpkg,
                   takers, enqueued, packages, groups, stdout, error,
                   arrived>>

\* args.task_done(), and back to the head of the loop
WorkerTaskDone(w) ==
    /\ wpc[w] = "task_done"
    /\ unfinished' = unfinished - 1
    /\ wpc' = [wpc EXCEPT ![w] = "get"]
    /\ wpkg' = [wpkg EXCEPT ![w] = None]
    /\ UNCHANGED <<exists, manifest, pos, mainpc, args, results, requests,
                   takers, enqueued, packages, groups, stdout, stderr, error,
                   arrived>>

----------------------------------------------------------------------------
(* main(): the report *)

Sort ==
    /\ mainpc = "sort"
    /\ packages' = SortByKey(packages)
    /\ groups' = GroupBy(SortByKey(packages))
    /\ mainpc' = "print"
    /\ UNCHANGED <<exists, manifest, pos, args, unfinished, results, wpc,
                   wpkg, requests, takers, enqueued, stdout, stderr, error,
                   arrived>>

PrintGroup ==
    /\ mainpc = "print"
    /\ groups # <<>>
    /\ stdout' = stdout \o PrintedGroup(Head(groups))
    /\ groups' = Tail(groups)
    /\ UNCHANGED <<exists, manifest, pos, mainpc, args, unfinished, results,
                   wpc, wpkg, requests, takers, enqueued, packages, stderr,
                   error, arrived>>

Exit ==
    /\ mainpc = "print"
    /\ groups = <<>>
    /\ mainpc' = "done"
    /\ UNCHANGED <<exists, manifest, pos, args, unfinished, results, wpc,
                   wpkg, requests, takers, enqueued, packages, groups, stdout,
                   stderr, error, arrived>>

----------------------------------------------------------------------------

\* one step of the program, the registry answering with one of `outcomes`
Step(outcomes) ==
    \/ ReadMissing
    \/ ReadLine
    \/ ReadEnd
    \/ CreateTasks
    \/ Join
    \/ Cancel
    \/ Return
    \/ \E w \in Workers : WorkerGet(w)
    \/ \E w \in Workers, o \in outcomes : WorkerLookup(w, o)
    \/ \E w \in Workers : WorkerTaskDone(w)
    \/ Sort
    \/ PrintGroup
    \/ Exit

Next == Step(Outcomes)

Spec == Init /\ [][Next]_vars

----------------------------------------------------------------------------
(* Scheduling: the event loop runs every task that can run, and every     *)
(* request ends (an answer, an error, or the 60 s timeout).                *)

MainStep ==
    \/ ReadMissing
    \/ ReadLine
    \/ ReadEnd
    \/ CreateTasks
    \/ Join
    \/ Cancel
    \/ Return
    \/ Sort
    \/ PrintGroup
    \/ Exit

WorkerStep(w) ==
    \/ WorkerGet(w)
    \/ \E o \in Outcomes : WorkerLookup(w, o)
    \/ WorkerTaskDone(w)

Fairness == WF_vars(MainStep) /\ \A w \in Workers : WF_vars(WorkerStep(w))

FairSpec == Init /\ [][Next]_vars /\ Fairness

----------------------------------------------------------------------------
(* More records than workers *)

\* ManyLines lines, the two names in turn with every third one repeated
ManyManifest ==
    [n \in 1..ManyLines |-> IF n % 3 = 2 THEN LineB2 ELSE LineA1]

ManyOutcomes == {Ok(Str1("1")), BodyRaised}

InitMany ==
    \/ InitWith(TRUE, ManyManifest)
    \/ InitWith(TRUE, <<LineA1, LineB2>>)
    \/ InitWith(TRUE, <<LineBlank>>)
    \/ InitWith(FALSE, <<>>)

NextMany == Step(ManyOutcomes)

SpecMany == InitMany /\ [][NextMany]_vars

----------------------------------------------------------------------------
(* Vocabulary of the properties *)

\* bound() has returned its list to main()
Returned == mainpc \in {"sort", "print", "done"}

\* args.join() has returned
Joined == mainpc \in {"cancel", "return", "sort", "print", "done"}

WellFormedManifest == exists /\ \A n \in 1..Len(manifest) : Matches(manifest[n])

BagOf(s) ==
    [x \in {s[n] : n \in DOMAIN s} |-> Cardinality({n \in DOMAIN s : s[n] = x})]

Pairs(ps) == [n \in 1..Len(ps) |-> <<ps[n].name, ps[n].required_version>>]

Names(ps) == [n \in 1..Len(ps) |-> ps[n].name]

\* the report: the entries, and the header each entry stands under
Entries == {n \in 1..Len(stdout) : stdout[n].kind = "entry"}

HeaderOf(n) ==
    LET h == CHOOSE h \in 1..n :
                 /\ stdout[h].kind = "header"
                 /\ \A k \in (h + 1)..n : stdout[k].kind # "header"
    IN stdout[h].text

Reported == [n \in 1..Len(stdout) |-> stdout[n].package]

Absent(p) == p.last_version = None

\* nothing can happen any more
AtRest == ~ENABLED Next

AtRestMany == ~ENABLED NextMany

----------------------------------------------------------------------------
(* C1: when bound() returns, its list holds exactly as many records as     *)
(* were put on the work queue (one per line of the manifest), and the same *)
(* multiset of (name, required_version) pairs: none lost, none duplicated. *)

C1_SizePreservation ==
    Returned =>
        /\ Len(packages) = Len(enqueued)
        /\ exists => Len(packages) = Len(manifest)
        /\ BagOf(Pairs(packages)) = BagOf(Pairs(enqueued))

\* two records returned, arrived in another order than they were put
C1_Witness ==
    /\ mainpc = "sort"
    /\ Len(packages) >= 2
    /\ Pairs(packages) # Pairs(enqueued)

----------------------------------------------------------------------------
(* C2: with more records than workers, no record is looked up twice, and   *)
(* when the run has come to rest every record was taken off the work queue *)
(* and looked up once (one lookup per line, also for lines of one name).   *)

C2_ExactlyOnce ==
    /\ requests \sqsubseteq BagOf(Names(enqueued))
    /\ (WellFormedManifest /\ Len(manifest) > NumWorkers /\ AtRestMany) =>
           /\ args = <<>>
           /\ requests = BagOf(Names(enqueued))

----------------------------------------------------------------------------
(* C3: for a manifest of well-formed lines, whatever the lookups' outcomes, *)
(* the join completes and bound() returns.                                  *)

C3_PoolTerminates == WellFormedManifest ~> Returned

----------------------------------------------------------------------------
(* C4: no lookup failure ends a worker: no worker task ever finishes with  *)
(* an exception, so every worker goes on to push its record, mark it done  *)
(* and take the next one.                                                   *)

C4_FailureStaysInLookup == \A w \in Workers : wpc[w] # "raised"

----------------------------------------------------------------------------
(* C5: in the finished report every returned record stands under exactly   *)
(* one header: under "Packages with updates" exactly when its last version  *)
(* is absent or differs from the required one, under "Packages without     *)
(* updates" exactly when it is present and equal.                           *)

C5_Partition ==
    mainpc = "done" =>
        /\ BagOf(SelectSeq(Reported, LAMBDA r : r # None))
             = BagOf([n \in 1..Len(packages) |-> Some(packages[n])])
        /\ \A n \in Entries :
             LET p == stdout[n].package[1]
             IN /\ HeaderOf(n) = "Packages with updates: "
                     <=> (Absent(p) \/ p.last_version[1] # p.required_version)
                /\ HeaderOf(n) = "Packages without updates: "
                     <=> (~Absent(p) /\ p.last_version[1] = p.required_version)

\* a report with both groups, one record being there for its absent version
C5_Witness ==
    /\ mainpc = "done"
    /\ \E n \in Entries : Absent(stdout[n].package[1])
    /\ \E n \in Entries : HeaderOf(n) = "Packages without updates: "

----------------------------------------------------------------------------
(* C6: once the join has returned (before the workers are cancelled, the   *)
(* results drained and the report made) the work queue is empty, no worker *)
(* holds a record, and every record put was marked done and has its result.*)

C6_CompletenessBarrier ==
    Joined =>
        /\ args = <<>>
        /\ unfinished = 0
        /\ \A w \in Workers : wpkg[w] = None /\ wpc[w] \in {"get", "cancelled"}
        /\ Len(results) + Len(packages) = Len(enqueued)

\* the join returns after two workers have served a record each
C6_Witness ==
    /\ mainpc = "cancel"
    /\ Len(results) >= 2
    /\ Cardinality(takers) >= 2

----------------------------------------------------------------------------
(* C7: with an empty manifest no record is taken and no lookup is issued,  *)
(* the workers wait at the empty work queue until they are cancelled, the  *)
(* join, the cancellation and the return follow, and the list is empty.    *)

EmptyManifest == exists /\ manifest = <<>>

C7_EmptyManifest ==
    /\ [](EmptyManifest =>
            /\ requests = EmptyBag
            /\ takers = {}
            /\ mainpc # "raised"
            /\ mainpc = "join" => \A w \in Workers : wpc[w] = "get"
            /\ mainpc = "cancel" => \A w \in Workers : wpc[w] = "get"
            /\ Returned => packages = <<>> /\ \A w \in Workers : wpc[w] = "cancelled")
    /\ (EmptyManifest ~> Returned)

C7_Witness ==
    /\ EmptyManifest
    /\ mainpc = "sort"
    /\ packages = <<>>
    /\ \A w \in Workers : wpc[w] = "cancelled"

----------------------------------------------------------------------------
(* C8: with one record, when the run has come to rest exactly one worker   *)
(* has taken a record and issued a lookup, the others were cancelled while *)
(* waiting, and bound() has returned a list of one record.                  *)

OneRecord == WellFormedManifest /\ Len(manifest) = 1

C8_OneRecord ==
    /\ OneRecord => Cardinality(takers) <= 1
    /\ (OneRecord /\ AtRest) =>
           /\ Cardinality(takers) = 1
           /\ requests = BagOf(Names(enqueued))
           /\ Returned
           /\ Len(packages) = 1
           /\ \A w \in Workers : wpc[w] = "cancelled"

----------------------------------------------------------------------------
(* C9: with no manifest file there is one diagnostic, no record, no lookup *)
(* and no exception, and the run ends with an empty list and an empty      *)
(* report.                                                                  *)

C9_MissingManifest ==
    /\ [](~exists =>
            /\ mainpc # "raised"
            /\ args = <<>>
            /\ unfinished = 0
            /\ requests = EmptyBag
            /\ stdout = <<>>
            /\ mainpc # "read" => stderr = <<"Requirements file not found">>
            /\ Returned => packages = <<>>)
    /\ (~exists ~> mainpc = "done")

C9_Witness ==
    /\ ~exists
    /\ mainpc = "done"
    /\ stdout = <<>>
    /\ stderr = <<"Requirements file not found">>

----------------------------------------------------------------------------
(* C10: when the run has come to rest the report lists every record of the *)
(* manifest, and at least as many of them under "Packages with updates"    *)
(* with an absent last version as lookups have failed.                     *)

\* lookups that ended in an exception: in session.get, or reading the body
FailedLookups ==
    Cardinality({n \in 1..Len(stderr) : stderr[n] = "lookup error"})
    + Cardinality({w \in Workers : wpc[w] = "raised"})

C10_FailureIsPerLookup ==
    (WellFormedManifest /\ AtRest) =>
        /\ mainpc = "done"
        /\ Cardinality(Entries) = Len(manifest)
        /\ Cardinality({n \in Entries :
                          /\ Absent(stdout[n].package[1])
                          /\ HeaderOf(n) = "Packages with updates: "})
             >= FailedLookups

----------------------------------------------------------------------------
(* C11: a manifest of well-formed and blank lines raises no error, and     *)
(* once it is read there is one record on the work queue per non-blank     *)
(* line, none for a blank one.                                              *)

IsBlank(line) == line = <<NL>> \/ line = <<>>

BlankOrWellFormed ==
    exists /\ \A n \in 1..Len(manifest) : IsBlank(manifest[n]) \/ Matches(manifest[n])

C11_BlankLineIsSkipped ==
    BlankOrWellFormed =>
        /\ mainpc # "raised"
        /\ error = None
        /\ mainpc # "read" =>
             Len(enqueued) = Cardinality({n \in 1..Len(manifest) : ~IsBlank(manifest[n])})

----------------------------------------------------------------------------
(* C12: a line without a match ends the run in an error that carries the   *)
(* line, and bound() returns no list.                                       *)

\* the line get_packages has just read has no match
BadLineRead == exists /\ pos >= 1 /\ ~Matches(manifest[pos])

C12_ParseErrorCarriesLine ==
    BadLineRead =>
        /\ mainpc = "raised"
        /\ ~Returned
        /\ error # None
        /\ \E n \in 1..Len(error[1].args) : error[1].args[n] = manifest[pos]

----------------------------------------------------------------------------
(* C13: the record a worker pushes has the name and the required version   *)
(* of the record it took, and as last version the registry's info.version  *)
(* when the answer had status 200, nothing for any other status and for a  *)
(* request that raised.                                                     *)

C13_LookupMapping ==
    [][\A w \in Workers, o \in Outcomes :
         (WorkerLookup(w, o) /\ results' # results) =>
            LET r == results'[Len(results')]
            IN /\ Len(results') = Len(results) + 1
               /\ r.name = wpkg[w][1].name
               /\ r.required_version = wpkg[w][1].required_version
               /\ o.kind = "ok" => r.last_version = o.version /\ o.version # None
               /\ o.kind # "ok" => r.last_version = None]_vars

\* one record pushed with a version, one without
C13_Witness ==
    /\ \E n \in 1..Len(results) : results[n].last_version # None
    /\ \E n \in 1..Len(results) : results[n].last_version = None

----------------------------------------------------------------------------
(* C14: a worker is cancelled only by the step that follows the join, and  *)
(* in the state it is taken from every record put was marked done, the     *)
(* work queue is empty and every worker waits at args.get() holding no     *)
(* record, so the cancellation drops no result.                             *)

C14_CancelAfterJoin ==
    [][(\E w \in Workers : wpc'[w] = "cancelled" /\ wpc[w] # "cancelled") =>
          /\ mainpc = "cancel"
          /\ unfinished = 0
          /\ args = <<>>
          /\ \A w \in Workers : wpc[w] = "get" /\ wpkg[w] = None
          /\ Len(results) = Len(enqueued)
          /\ results' = results]_vars

\* the workers were cancelled after they had served two records
C14_Witness ==
    /\ mainpc = "return"
    /\ \A w \in Workers : wpc[w] = "cancelled"
    /\ Len(results) >= 2

----------------------------------------------------------------------------
(* C15: five workers are launched, a worker in a lookup holds one record,  *)
(* and the lookups in flight are never more than five nor more than the    *)
(* records of the manifest.                                                 *)

Launched == {w \in DOMAIN wpc : wpc[w] # "none"}

InFlight == {w \in DOMAIN wpc : wpc[w] = "lookup"}

C15_BoundedConcurrency ==
    /\ mainpc \notin {"read", "create_tasks", "raised"} => Cardinality(Launched) = 5
    /\ mainpc \in {"read", "create_tasks", "raised"} => Launched = {}
    /\ \A w \in InFlight : Len(wpkg[w]) = 1
    /\ Cardinality(InFlight) <= 5
    /\ Cardinality(InFlight) <= Len(enqueued)
    /\ exists => Cardinality(InFlight) <= Len(manifest)

\* five lookups in flight while a sixth record waits on the work queue
C15_Witness ==
    /\ Cardinality(InFlight) = 5
    /\ args # <<>>

----------------------------------------------------------------------------
(* C16: in the report every entry bears its distance from the header it    *)
(* stands under (1, 2, ... anew under each header), and the entries under  *)
(* one header are in the order in which their records arrived.             *)

Headers == {n \in 1..Len(stdout) : stdout[n].kind = "header"}

HeaderAt(n) ==
    CHOOSE h \in 1..n :
        /\ stdout[h].kind = "header"
        /\ \A k \in (h + 1)..n : stdout[k].kind # "header"

\* the records printed under the header at h, in the order of the print
GroupEntries(h) ==
    LET idx == SelectSeq([n \in 1..Len(stdout) |-> n],
                         LAMBDA n : n \in Entries /\ HeaderAt(n) = h)
    IN [k \in 1..Len(idx) |-> stdout[idx[k]].package[1]]

InOrderOfArrival(ps) ==
    ps = SelectSeq(arrived, LAMBDA p : \E k \in 1..Len(ps) : ps[k] = p)

C16_NumberingAndOrder ==
    /\ \A n \in Entries : stdout[n].num = n - HeaderAt(n)
    /\ \A h \in Headers : h + 1 \in Entries
    /\ mainpc = "done" => \A h \in Headers : InOrderOfArrival(GroupEntries(h))

\* a group of two different records that arrived in the inverse order of
\* their lines
C16_Witness ==
    /\ mainpc = "done"
    /\ \E n \in Entries : stdout[n].num = 2
    /\ Len(arrived) = 2
    /\ arrived[1] # arrived[2]
    /\ Pairs(arrived) # Pairs(enqueued)

----------------------------------------------------------------------------
(* C17: the groups of the report (header and multiset of records, first    *)
(* to last) are those the sort and the grouping give for every order in    *)
(* which the same records could have arrived, and they are at most two.    *)

Perms(ps) ==
    {[k \in 1..Len(ps) |-> ps[f[k]]] :
        f \in {g \in [1..Len(ps) -> 1..Len(ps)] :
                 \A i, j \in 1..Len(ps) : g[i] = g[j] => i = j}}

\* the groups main() makes of the list ps
GroupsOf(ps) ==
    LET gs == GroupBy(SortByKey(ps))
    IN [k \in 1..Len(gs) |-> <<Header(gs[k].has_update), BagOf(gs[k].items)>>]

\* the groups that stand in the report
PrintedGroups ==
    LET hs == SelectSeq([n \in 1..Len(stdout) |-> n], LAMBDA n : n \in Headers)
    IN [k \in 1..Len(hs) |-> <<stdout[hs[k]].text, BagOf(GroupEntries(hs[k]))>>]

C17_AggregationIsPure ==
    mainpc = "done" =>
        /\ Len(PrintedGroups) <= 2
        /\ \A q \in Perms(arrived) : GroupsOf(q) = PrintedGroups

\* both groups, the record with an update having arrived first
C17_Witness ==
    /\ mainpc = "done"
    /\ Cardinality(Headers) = 2
    /\ Len(arrived) >= 2
    /\ stdout[2].package # Some(arrived[1])

----------------------------------------------------------------------------
(* C18: while the manifest is being read, and after a line has failed to   *)
(* parse, no worker exists and the registry was asked nothing; a worker    *)
(* exists only when every line was read and put on the work queue.         *)

C18_ReadBeforeWorkers ==
    /\ mainpc \in {"read", "create_tasks", "raised"} =>
          /\ \A w \in Workers : wpc[w] = "none"
          /\ requests = EmptyBag
          /\ takers = {}
          /\ results = <<>>
          /\ Len(args) = Len(enqueued)
    /\ (exists /\ \E w \in Workers : wpc[w] # "none") =>
          /\ pos = Len(manifest)
          /\ Len(enqueued) = Len(manifest)

\* the run has stopped at a bad line that follows a well-formed one
C18_Witness ==
    /\ mainpc = "raised"
    /\ Len(enqueued) >= 1
    /\ requests = EmptyBag

----------------------------------------------------------------------------
(* C19: push before done.                                                  *)

\* work items marked done: put() counts one up, task_done() one down
MarkedDone == Len(enqueued) - unfinished

\* work items taken from the work queue
Dequeued == Len(enqueued) - Len(args)

\* records ever put on the result queue: those on it and those drained
Pushed == Len(results) + Len(arrived)

(* C19 as stated: in every state the work items marked done are at most   *)
(* the records on the result queue, and these at most the work items      *)
(* dequeued.                                                               *)
C19_DoneAtMostOnQueue ==
    /\ MarkedDone <= Len(results)
    /\ Len(results) <= Dequeued

(* C19 amended: in every state the work items marked done are at most the *)
(* records pushed onto the result queue (on it, or drained from it by     *)
(* bound()), and these at most the work items dequeued; until bound()     *)
(* drains the queue, all of them are on it.                               *)
C19_PushBeforeDone ==
    /\ MarkedDone <= Pushed
    /\ Pushed <= Dequeued
    /\ Len(results) <= Dequeued
    /\ mainpc \in {"read", "create_tasks", "join", "cancel", "return",
                   "raised"} =>
          /\ arrived = <<>>
          /\ MarkedDone <= Len(results)

\* a worker has pushed its record and not yet marked the item done
C19_Witness ==
    /\ \E w \in Workers : wpc[w] = "task_done"
    /\ MarkedDone < Len(results)
    /\ MarkedDone >= 1

----------------------------------------------------------------------------
(* C20: the report prints "Packages without updates" before "Packages     *)
(* with updates", each header at most once, and a header only for a group *)
(* that has records; an empty result list prints nothing.                 *)

HeaderPrinted(has_update) ==
    \E h \in Headers : stdout[h].text = Header(has_update)

C20_HeaderOrder ==
    /\ \A h1, h2 \in Headers :
          h1 < h2 => /\ stdout[h1].text = Header(FALSE)
                     /\ stdout[h2].text = Header(TRUE)
    /\ \A h \in Headers :
          /\ h + 1 \in Entries
          /\ \E n \in 1..Len(arrived) : Header(Key(arrived[n])) = stdout[h].text
    /\ mainpc = "done" =>
          /\ \A b \in BOOLEAN :
                HeaderPrinted(b) <=> \E n \in 1..Len(arrived) : Key(arrived[n]) = b
          /\ arrived = <<>> => stdout = <<>>

\* both groups were printed, the record with an update having arrived first
C20_Witness ==
    /\ mainpc = "done"
    /\ HeaderPrinted(FALSE)
    /\ HeaderPrinted(TRUE)
    /\ Key(arrived[1])

====
